---------------------------- MODULE Spec2Model ----------------------------
(***************************************************************************)
(* A model of input.hpp (namespace in): the raw keystroke reader           *)
(* _infuncs::getch, the line editor infuncs::basic_input, the single-key   *)
(* reader infuncs::instant_input, the validation loop validate, the entry  *)
(* point input, and the check constructors of namespace checks.            *)
(*                                                                         *)
(* A character is its byte value 0..255, a std::string a sequence of       *)
(* characters.  A Check is a record naming its constructor and the values  *)
(* its closure captured; calling it is Eval, which yields <<>> when the    *)
(* check returns and <<m>> when it throws InvalidInputException with       *)
(* what() = m.                                                             *)
(***************************************************************************)
EXTENDS Integers, Sequences, FiniteSets, TLC

(***************************************************************************)
(* Bounds of the model.                                                    *)
(***************************************************************************)
\* Reads (keystrokes, and failed reads) the console answers during the run.
MaxKeys == 5
\* Calls of the input function (attempts) validate may make.
MaxAttempts == 2
\* Length of the strings the checks are called on when called on their own.
MaxLen == 3
\* Number of checks passed to wrappers::any.
MaxChecks == 2
\* Length of the argument string_of_char of consists_of.
MaxAllowed == 3
\* Length of the strings consists_of's check is called on.
MaxCandidate == 2
\* Length of the strings the numeric checks are called on.
MaxDigits == 5

(***************************************************************************)
(* Program constants.                                                      *)
(***************************************************************************)
\* #ifdef __linux__ : const char NEWLINE = 10
NEWLINE == 10
\* const char BACKSPACE = 127
BACKSPACE == 127
\* const char CURSOR_BACK = 8
CURSOR_BACK == 8
\* const char INPUT_MASK = '*'
INPUT_MASK == 42
\* const char* INVALID_INPUT_PROMPT
INVALID_INPUT_PROMPT == "Invalid Input"
\* The " " of the erase sequence.
SPACE == 32
\* What std::endl writes.
ENDL == 10
\* <cstdio> EOF, the int getchar() returns when the read fails.
EOF == -1
\* A char holds one byte.
CharModulus == 256

\* The conversion int -> char of `input = getchar()`.
ToChar(i) == i % CharModulus

\* ::toupper in the "C" locale, applied to a char and converted back to char.
toupper(c) == IF c >= 97 /\ c <= 122 THEN c - 32 ELSE c

\* Character-wise toupper over a std::string (the loops of checks::is).
RECURSIVE UpperString(_)
UpperString(s) ==
    IF s = <<>> THEN <<>> ELSE <<toupper(Head(s))>> \o UpperString(Tail(s))

Char == 0..(CharModulus - 1)
Digits == 48..57
MINUS == 45
DOT == 46

(***************************************************************************)
(* std::regex (ECMAScript grammar) restricted to the shapes the library    *)
(* builds: a sequence of atoms, each a set of characters with a repetition *)
(* count lo..hi (hi ignored when unbounded).  ^ and $ are implied by       *)
(* std::regex_match, which matches the whole string.                       *)
(***************************************************************************)
Atom(set, lo, hi, unbounded) ==
    [set |-> set, lo |-> lo, hi |-> hi, unbounded |-> unbounded]

\* ECMAScript `.`: any character but a line terminator.
AnyChar == Char \ {10, 13}

\* std::regex_match(user_input, regular_expression)
RECURSIVE regex_match(_, _)
regex_match(s, re) ==
    IF re = <<>> THEN s = <<>>
    ELSE LET a == Head(re)
         IN  \E n \in a.lo..Len(s) :
                /\ a.unbounded \/ n <= a.hi
                /\ \A i \in 1..n : s[i] \in a.set
                /\ regex_match(SubSeq(s, n + 1, Len(s)), Tail(re))

(***************************************************************************)
(* Compiling the expression consists_of builds, "^[" + string_of_char +    *)
(* "]+$": std::regex reads string_of_char as the text of a bracket         *)
(* expression.  The expression is a sequence of characters; compiling it   *)
(* gives the atoms regex_match takes, or fails with std::regex_error.      *)
(***************************************************************************)
CARET == 94
LBRACKET == 91
RBRACKET == 93
BACKSLASH == 92
PLUS == 43
DOLLAR == 36

\* The scanner inside a bracket expression, from position i of expression e:
\* the tokens up to the first ], which closes the bracket, and the position
\* after it.  A backslash makes the next character an ordinary one; a - not
\* escaped is the dash token.
RECURSIVE BracketTokens(_, _)
BracketTokens(e, i) ==
    IF i > Len(e) THEN [closed |-> FALSE, toks |-> <<>>, next |-> i]
    ELSE IF e[i] = RBRACKET
    THEN [closed |-> TRUE, toks |-> <<>>, next |-> i + 1]
    ELSE IF e[i] = BACKSLASH
    THEN IF i + 1 > Len(e)
         THEN [closed |-> FALSE, toks |-> <<>>, next |-> i + 1]
         ELSE LET r == BracketTokens(e, i + 2)
              IN  [r EXCEPT !.toks = <<[dash |-> FALSE, c |-> e[i + 1]]>> \o @]
    ELSE LET r == BracketTokens(e, i + 1)
         IN  [r EXCEPT !.toks = <<[dash |-> e[i] = MINUS, c |-> e[i]]>> \o @]

\* The compiler's loop over the tokens of a bracket expression from token i
\* on: last is the character read but not yet added (<<>> when there is
\* none), set the characters added so far.  x-y adds the range from x to
\* y, and is an error when x > y; a dash that is first, last, or follows a
\* range is the character -.
RECURSIVE ExpressionTerm(_, _, _, _)
ExpressionTerm(toks, i, last, set) ==
    LET added == set \cup {last[k] : k \in 1..Len(last)}
    IN  IF i > Len(toks) THEN [error |-> FALSE, set |-> added]
        ELSE IF ~toks[i].dash
        THEN ExpressionTerm(toks, i + 1, <<toks[i].c>>, added)
        ELSE IF i = Len(toks)
        THEN [error |-> FALSE, set |-> added \cup {MINUS}]
        ELSE IF last # <<>>
        THEN IF last[1] > toks[i + 1].c
             THEN [error |-> TRUE, set |-> {}]
             ELSE ExpressionTerm(toks, i + 2, <<>>,
                                 set \cup (last[1]..toks[i + 1].c))
        ELSE ExpressionTerm(toks, i + 1, <<MINUS>>, added)

\* The set of characters a bracket expression with these tokens stands for.
BracketSet(toks) ==
    IF toks = <<>> THEN [error |-> FALSE, set |-> {}]
    ELSE ExpressionTerm(toks, 2, <<toks[1].c>>, {})

\* The expression outside brackets, from position i on, after at least one
\* character was matched: \x is the character x, ^ matches at the start of
\* the string only and so not here, $ ends the expression, any other
\* character is itself, and a + repeats what it follows.
RECURSIVE NormalAtoms(_, _)
NormalAtoms(e, i) ==
    IF i > Len(e) \/ e[i] = DOLLAR THEN <<>>
    ELSE IF e[i] = CARET
    THEN <<Atom({}, 1, 1, FALSE)>> \o NormalAtoms(e, i + 1)
    ELSE LET escaped == e[i] = BACKSLASH
             c == IF escaped THEN e[i + 1] ELSE e[i]
             after == IF escaped THEN i + 2 ELSE i + 1
             repeated == after <= Len(e) /\ e[after] = PLUS
         IN  <<Atom({c}, 1, 1, repeated)>>
             \o NormalAtoms(e, IF repeated THEN after + 1 ELSE after)

\* std::regex(e) for an expression e that begins with ^[ : the bracket
\* expression, negated when it begins with [^ , then the rest.
Compile(e) ==
    LET negated == e[3] = CARET
        b == BracketTokens(e, IF negated THEN 4 ELSE 3)
        s == BracketSet(b.toks)
        repeated == b.next <= Len(e) /\ e[b.next] = PLUS
    IN  IF ~b.closed \/ s.error THEN [error |-> TRUE, atoms |-> <<>>]
        ELSE [error |-> FALSE,
              atoms |->
                <<Atom(IF negated THEN Char \ s.set ELSE s.set,
                       1, 1, repeated)>>
                \o NormalAtoms(e, IF repeated THEN b.next + 1 ELSE b.next)]

(***************************************************************************)
(* Numeric kinds T of numeric<T> and range<T>.                             *)
(***************************************************************************)
\* std::numeric_limits<int>::max() and ::min()
IntMax == 2147483647
IntMin == (-IntMax) - 1
\* std::numeric_limits<unsigned short>::max()
UShortMax == 65535
\* std::numeric_limits<short>::max() and ::min()
ShortMax == 32767
ShortMin == (-ShortMax) - 1
\* std::numeric_limits<T>::max() and ::min() of the 8-bit signed T: char
\* where char is signed, signed char, int8_t
SCharMax == 127
SCharMin == (-SCharMax) - 1

\* A kind records what numeric<T> and range<T> ask of T: is_floating_point,
\* is_signed, whether operator>> reads T as a character, and T's limits.
KindInt ==
    [floating |-> FALSE, signed |-> TRUE, character |-> FALSE,
     min |-> IntMin, max |-> IntMax]
KindUShort ==
    [floating |-> FALSE, signed |-> FALSE, character |-> FALSE,
     min |-> 0, max |-> UShortMax]
KindShort ==
    [floating |-> FALSE, signed |-> TRUE, character |-> FALSE,
     min |-> ShortMin, max |-> ShortMax]
\* The 8-bit signed integers are character types.
KindChar ==
    [floating |-> FALSE, signed |-> TRUE, character |-> TRUE,
     min |-> SCharMin, max |-> SCharMax]
\* double enters the model through numeric<double> only, which asks for
\* nothing but the two traits.
KindDouble == [floating |-> TRUE, signed |-> TRUE]

(***************************************************************************)
(* Check constructors (namespace checks).                                  *)
(***************************************************************************)
is(case_sensitive, strings) ==
    [op |-> "is", case_sensitive |-> case_sensitive, strings |-> strings]

matches_regex(regular_expression) ==
    [op |-> "matches_regex", regular_expression |-> regular_expression]

\* std::regex expression("^.{" + std::to_string(length) + "}$")
length(n) == matches_regex(<<Atom(AnyChar, n, n, FALSE)>>)

\* std::regex expression("^[" + string_of_char + "]+$"); when the constructor
\* of std::regex throws, consists_of throws and there is no check.
consists_of(string_of_char) ==
    LET expression ==
            Compile(<<CARET, LBRACKET>> \o string_of_char
                    \o <<RBRACKET, PLUS, DOLLAR>>)
    IN  IF expression.error THEN [op |-> "regex_error"]
        ELSE matches_regex(expression.atoms)

\* Faulty variant of NumericExpression: for a floating T the dot and the
\* digits after it may be left out.
NumericExpressionOptionalFraction(T) ==
    IF T.floating
    THEN << Atom({MINUS}, 0, 1, FALSE), Atom(Digits, 1, 0, TRUE),
            Atom({DOT}, 0, 1, FALSE), Atom(Digits, 0, 0, TRUE) >>
    ELSE (IF T.signed THEN <<Atom({MINUS}, 0, 1, FALSE)>> ELSE <<>>)
         \o <<Atom(Digits, 1, 0, TRUE)>>

\* The expression numeric<T> builds.
NumericExpression(T) ==
    IF T.floating
    THEN << Atom({MINUS}, 0, 1, FALSE), Atom(Digits, 1, 0, TRUE),
            Atom({DOT}, 1, 1, FALSE), Atom(Digits, 1, 0, TRUE) >>
    ELSE (IF T.signed THEN <<Atom({MINUS}, 0, 1, FALSE)>> ELSE <<>>)
         \o <<Atom(Digits, 1, 0, TRUE)>>

numeric(T) == matches_regex(NumericExpression(T))

range(T, minimum, maximum) ==
    [op |-> "range", T |-> T, minimum |-> minimum, maximum |-> maximum]

custom(check, error_message) ==
    [op |-> "custom", check |-> check, error_message |-> error_message]

inverse(check) == [op |-> "inverse", check |-> check]

any(checks) == [op |-> "any", checks |-> checks]

(***************************************************************************)
(* Calling a check.                                                        *)
(***************************************************************************)
Return == <<>>
Throw(error_message) == <<error_message>>

\* The decimal value of a string of digits.
RECURSIVE DigitsValue(_)
DigitsValue(s) ==
    IF s = <<>> THEN 0
    ELSE 10 * DigitsValue(SubSeq(s, 1, Len(s) - 1)) + (s[Len(s)] - 48)

\* `stream >> user_input_numeric` for an integral T, on a string that matched
\* numeric<T>.  For a character type operator>> reads one character, and the
\* value is its code.  Otherwise it parses the digits: the value, and
\* failbit when it does not fit in T (the value stored is then T's nearest
\* limit).
StreamExtract(T, s) ==
    LET neg == s # <<>> /\ s[1] = MINUS
        v   == IF neg THEN 0 - DigitsValue(Tail(s)) ELSE DigitsValue(s)
    IN  IF T.character THEN [fail |-> FALSE, value |-> s[1]]
        ELSE IF v < T.min THEN [fail |-> TRUE, value |-> T.min]
        ELSE IF v > T.max THEN [fail |-> TRUE, value |-> T.max]
        ELSE [fail |-> FALSE, value |-> v]

\* Faulty variant of IsBody: only the user's input is upper-cased, the
\* strings compared with are left as given.
IsBodyFoldsInputOnly(c, user_input) ==
    LET u == IF c.case_sensitive THEN user_input ELSE UpperString(user_input)
    IN  IF \E i \in 1..Len(c.strings) : u = c.strings[i]
        THEN Return
        ELSE Throw(INVALID_INPUT_PROMPT)

\* The body of the lambda checks::is returns.
IsBody(c, user_input) ==
    LET u == IF c.case_sensitive THEN user_input ELSE UpperString(user_input)
        comparison_strings ==
            [i \in 1..Len(c.strings) |->
                IF c.case_sensitive THEN c.strings[i]
                ELSE UpperString(c.strings[i])]
    IN  IF \E i \in 1..Len(comparison_strings) : u = comparison_strings[i]
        THEN Return
        ELSE Throw(INVALID_INPUT_PROMPT)

\* The body of the lambda checks::matches_regex returns.
MatchesRegexBody(c, user_input) ==
    IF ~regex_match(user_input, c.regular_expression)
    THEN Throw(INVALID_INPUT_PROMPT)
    ELSE Return

\* The body of the lambda checks::range returns, after numeric<T>() returned.
RangeBody(c, user_input) ==
    LET r == StreamExtract(c.T, user_input)
    IN  IF r.fail \/ (r.value < c.minimum \/ r.value > c.maximum)
        THEN Throw(INVALID_INPUT_PROMPT)
        ELSE Return

\* Faulty variant of CustomBody: the wrapped check's exception is let through.
CustomBodyRethrows(c, inner) == inner

\* wrappers::custom, given what the wrapped check did.
CustomBody(c, inner) ==
    IF inner # Return THEN Throw(c.error_message) ELSE Return

\* Faulty variant of InverseBody: what the wrapped check did is passed on.
InverseBodyPassesOn(inner) == inner

\* wrappers::inverse, given what the wrapped check did.
InverseBody(inner) ==
    IF inner # Return THEN Return ELSE Throw(INVALID_INPUT_PROMPT)

RECURSIVE Eval(_, _)
RECURSIVE AnyBody(_, _, _)
RECURSIVE AnyBodyKeepsMessage(_, _, _)
RECURSIVE AnyCalls(_, _, _)

\* Faulty variant of AnyBody: when the last check rejects too, its exception
\* is let through.
AnyBodyKeepsMessage(cs, i, user_input) ==
    IF i > Len(cs) THEN Throw(INVALID_INPUT_PROMPT)
    ELSE LET r == Eval(cs[i], user_input)
         IN  IF r = Return THEN Return
             ELSE IF i = Len(cs) THEN r
             ELSE AnyBodyKeepsMessage(cs, i + 1, user_input)

\* wrappers::any: the loop over checks from position i on.
AnyBody(cs, i, user_input) ==
    IF i > Len(cs) THEN Throw(INVALID_INPUT_PROMPT)
    ELSE IF Eval(cs[i], user_input) # Return
         THEN AnyBody(cs, i + 1, user_input)
         ELSE Return

\* wrappers::any: the positions of the checks the loop calls, from i on.
AnyCalls(cs, i, user_input) ==
    IF i > Len(cs) THEN <<>>
    ELSE IF Eval(cs[i], user_input) # Return
         THEN <<i>> \o AnyCalls(cs, i + 1, user_input)
         ELSE <<i>>

\* check(user_input)
Eval(c, user_input) ==
    CASE c.op = "is" -> IsBody(c, user_input)
      [] c.op = "matches_regex" -> MatchesRegexBody(c, user_input)
      [] c.op = "range" ->
            LET n == MatchesRegexBody(numeric(c.T), user_input)
            IN  IF n # Return THEN n ELSE RangeBody(c, user_input)
      [] c.op = "custom" -> CustomBody(c, Eval(c.check, user_input))
      [] c.op = "inverse" -> InverseBody(Eval(c.check, user_input))
      [] c.op = "any" -> AnyBody(c.checks, 1, user_input)

Accepts(c, s) == Eval(c, s) = Return


(***************************************************************************)
(* The call modelled: in::input<style, prompt_once>(message, checks...).   *)
(***************************************************************************)
\* The keys the console can deliver: 'a', '5', delete and confirm.
Keys == {97, 53, BACKSPACE, NEWLINE}

\* The message argument of input: "M".
message == <<77>>

NeedTwoChars == "need two chars"
OutOfRange == "out of range"

\* The argument packs checks... the model is run with.
Chains ==
    << <<>>,
       << custom(length(2), NeedTwoChars), numeric(KindInt) >>,
       << inverse(is(FALSE, << <<65>> >>)),
          any(<< custom(range(KindInt, 5, 9), OutOfRange), length(2) >>) >>,
       << custom(range(KindInt, 1, 10), OutOfRange) >> >>

VARIABLES
    style,            \* template argument Style of input
    prompt_once,      \* template argument prompt_once of input
    chain,            \* which pack of Chains is passed as checks...
    icanon, echo,     \* the terminal's c_lflag bits ICANON and ECHO
    entry_icanon, entry_echo, \* the bits when the current getch call began
    cin_fail,         \* !std::cin
    eof,              \* stdin is at end of input
    pc,               \* where the program is
    user_input,       \* the input function's local user_input
    character,        \* the input function's local character
    candidate,        \* validate's local user_input
    fully_validated,  \* validate's local fully_validated
    idx,              \* position of validate's loop over { checks... }
    display,          \* what was written to std::cout
    err,              \* the lines written to std::cerr
    keys,             \* what getch returned to the current input function call
    reads,            \* how many getchar() calls have returned
    produced,         \* what each call of input_function returned
    echoed,           \* what the current input function call wrote to std::cout
    ran,              \* the checks called on the current candidate, in order
    call              \* the last call of a check made on its own

vars == << style, prompt_once, chain, icanon, echo, entry_icanon, entry_echo,
           cin_fail, eof, pc, user_input, character, candidate,
           fully_validated, idx, display, err, keys, reads, produced,
           echoed, ran, call >>

checks == Chains[chain]

\* No check has been called on its own.
NoCall ==
    [op |-> "none", given |-> <<>>, check |-> <<>>, input |-> <<>>,
     constructed |-> FALSE, outcome |-> <<>>, evaluated |-> <<>>]

Init ==
    /\ style \in {"Basic", "Masked", "Instant"}
    /\ prompt_once \in BOOLEAN
    /\ chain \in 1..Len(Chains)
    /\ icanon \in BOOLEAN
    /\ echo \in BOOLEAN
    /\ entry_icanon = icanon
    /\ entry_echo = echo
    /\ cin_fail \in BOOLEAN
    /\ eof = FALSE
    /\ pc = "input"
    /\ user_input = <<>>
    /\ character = 0
    /\ candidate = <<>>
    /\ fully_validated = FALSE
    /\ idx = 1
    /\ display = <<>>
    /\ err = <<>>
    /\ keys = <<>>
    /\ reads = 0
    /\ produced = <<>>
    /\ echoed = <<>>
    /\ ran = <<>>
    /\ call = NoCall

\* input: choose the input function, prompt once if asked to, call validate.
Input ==
    /\ pc = "input"
    /\ display' = IF prompt_once THEN display \o message ELSE display
    /\ pc' = "call"
    /\ UNCHANGED << style, prompt_once, chain, icanon, echo, entry_icanon,
                    entry_echo, cin_fail, eof, user_input, character,
                    candidate, fully_validated, idx, err, keys, produced,
                    echoed, ran, reads, call >>

\* Faulty variant of InputFunction: the message is written before every
\* attempt, whatever prompt_once is.
InputFunctionPromptsAlways ==
    /\ pc = "call"
    /\ Len(produced) < MaxAttempts
    /\ display' = display \o message
    /\ user_input' = <<>>
    /\ keys' = <<>>
    /\ echoed' = <<>>
    /\ pc' = "getch"
    /\ UNCHANGED << style, prompt_once, chain, icanon, echo, entry_icanon,
                    entry_echo, cin_fail, eof, character, candidate,
                    fully_validated, idx, err, produced, ran, reads, call >>

\* validate calls input_function(): the prompting wrapper when prompt_once
\* is false, then basic_input or instant_input up to its first getch.
InputFunction ==
    /\ pc = "call"
    /\ Len(produced) < MaxAttempts
    /\ display' = IF prompt_once THEN display ELSE display \o message
    /\ user_input' = <<>>
    /\ keys' = <<>>
    /\ echoed' = <<>>
    /\ pc' = "getch"
    /\ UNCHANGED << style, prompt_once, chain, icanon, echo, entry_icanon,
                    entry_echo, cin_fail, eof, character, candidate,
                    fully_validated, idx, err, produced, ran, reads, call >>

\* getch up to getchar(): clear ICANON and ECHO; when std::cin has failed,
\* clear it and discard the pending input up to a newline (or to its end).
GetchSetRaw ==
    /\ pc = "getch"
    /\ entry_icanon' = icanon
    /\ entry_echo' = echo
    /\ icanon' = FALSE
    /\ echo' = FALSE
    /\ IF cin_fail
       THEN /\ cin_fail' = FALSE
            /\ eof' \in {eof, TRUE}
       ELSE UNCHANGED << cin_fail, eof >>
    /\ pc' = "getchar"
    /\ UNCHANGED << style, prompt_once, chain, user_input, character,
                    candidate, fully_validated, idx, display, err, keys,
                    produced, echoed, ran, reads, call >>

\* Faulty variant of GetchRead: getch returns the character without setting
\* ICANON and ECHO again.
GetchReadLeavesRaw(k) ==
    /\ pc = "getchar"
    /\ reads < MaxKeys
    /\ reads' = reads + 1
    /\ IF k = EOF THEN eof' = TRUE ELSE (~eof /\ eof' = eof)
    /\ icanon' = icanon
    /\ echo' = echo
    /\ character' = ToChar(k)
    /\ keys' = Append(keys, ToChar(k))
    /\ pc' = "key"
    /\ UNCHANGED << style, prompt_once, chain, entry_icanon, entry_echo,
                    cin_fail, user_input, candidate, fully_validated, idx,
                    display, err, produced, echoed, ran, call >>

\* getch from getchar() on: the read delivers key k, or fails (EOF); ICANON
\* and ECHO are set; the character is returned to the input function.
GetchRead(k) ==
    /\ pc = "getchar"
    /\ reads < MaxKeys
    /\ reads' = reads + 1
    /\ IF k = EOF THEN eof' = TRUE ELSE (~eof /\ eof' = eof)
    /\ icanon' = TRUE
    /\ echo' = TRUE
    /\ character' = ToChar(k)
    /\ keys' = Append(keys, ToChar(k))
    /\ pc' = "key"
    /\ UNCHANGED << style, prompt_once, chain, entry_icanon, entry_echo,
                    cin_fail, user_input, candidate, fully_validated, idx,
                    display, err, produced, echoed, ran, call >>

\* A signal ends the process while getchar() is pending; getch catches none.
Interrupt ==
    /\ pc = "getchar"
    /\ pc' = "killed"
    /\ UNCHANGED << style, prompt_once, chain, icanon, echo, entry_icanon,
                    entry_echo, cin_fail, eof, user_input, character,
                    candidate, fully_validated, idx, display, err, keys,
                    produced, echoed, ran, reads, call >>

\* std::cout << ... inside an input function.
Cout(s) ==
    /\ display' = display \o s
    /\ echoed' = echoed \o s

\* Faulty variant of Echo: the mask is ignored.
EchoLiteral(mask, c) == c

\* What basic_input writes for an appended character.
Echo(mask, c) == IF mask THEN INPUT_MASK ELSE c

\* Faulty variant of BasicInputKey: the default branch lacks the test that
\* the key is not ENTER.
BasicInputKeyAppendsNewline ==
    /\ pc = "key"
    /\ style # "Instant"
    /\ IF character = BACKSPACE
       THEN IF user_input # <<>>
            THEN /\ user_input' = SubSeq(user_input, 1, Len(user_input) - 1)
                 /\ Cout(<<CURSOR_BACK, SPACE, CURSOR_BACK>>)
            ELSE UNCHANGED << user_input, display, echoed >>
       ELSE /\ user_input' = Append(user_input, character)
            /\ Cout(<<Echo(style = "Masked", character)>>)
    /\ pc' = IF character # NEWLINE THEN "getch" ELSE "returned"
    /\ UNCHANGED << style, prompt_once, chain, icanon, echo, entry_icanon,
                    entry_echo, cin_fail, eof, character, candidate,
                    fully_validated, idx, err, keys, produced, ran, reads, call
                    >>

\* basic_input: one turn of the do-while loop after getch returned.
BasicInputKey ==
    /\ pc = "key"
    /\ style # "Instant"
    /\ IF character = BACKSPACE
       THEN IF user_input # <<>>
            THEN /\ user_input' = SubSeq(user_input, 1, Len(user_input) - 1)
                 /\ Cout(<<CURSOR_BACK, SPACE, CURSOR_BACK>>)
            ELSE UNCHANGED << user_input, display, echoed >>
       ELSE IF character # NEWLINE
            THEN /\ user_input' = Append(user_input, character)
                 /\ Cout(<<Echo(style = "Masked", character)>>)
            ELSE UNCHANGED << user_input, display, echoed >>
    /\ pc' = IF character # NEWLINE THEN "getch" ELSE "returned"
    /\ UNCHANGED << style, prompt_once, chain, icanon, echo, entry_icanon,
                    entry_echo, cin_fail, eof, character, candidate,
                    fully_validated, idx, err, keys, produced, ran, reads, call
                    >>

\* Faulty variant of InstantInputKey: the key is echoed as it was typed.
InstantInputKeyEchoesLiteral ==
    /\ pc = "key"
    /\ style = "Instant"
    /\ user_input' = Append(user_input, character)
    /\ Cout(<<character>>)
    /\ pc' = "returned"
    /\ UNCHANGED << style, prompt_once, chain, icanon, echo, entry_icanon,
                    entry_echo, cin_fail, eof, character, candidate,
                    fully_validated, idx, err, keys, produced, ran, reads, call
                    >>

\* instant_input after getch returned.
InstantInputKey ==
    /\ pc = "key"
    /\ style = "Instant"
    /\ user_input' = Append(user_input, character)
    /\ Cout(<<ToChar(toupper(character))>>)
    /\ pc' = "returned"
    /\ UNCHANGED << style, prompt_once, chain, icanon, echo, entry_icanon,
                    entry_echo, cin_fail, eof, character, candidate,
                    fully_validated, idx, err, keys, produced, ran, reads, call
                    >>

\* Faulty variant of ValidateReceive: the retry loop is entered even when no
\* checks were passed, so the input function is called again.
ValidateReceiveLoopsWithoutChecks ==
    /\ pc = "returned"
    /\ candidate' = user_input
    /\ produced' = Append(produced, user_input)
    /\ display' = Append(display, ENDL)
    /\ fully_validated' = (checks # <<>>)
    /\ idx' = 1
    /\ ran' = <<>>
    /\ pc' = IF checks # <<>> THEN "check" ELSE "call"
    /\ UNCHANGED << style, prompt_once, chain, icanon, echo, entry_icanon,
                    entry_echo, cin_fail, eof, user_input, character, err,
                    keys, echoed, reads, call >>

\* validate: user_input = input_function(); std::cout << std::endl; then the
\* loop over the checks begins, or, without checks, validate returns.
ValidateReceive ==
    /\ pc = "returned"
    /\ candidate' = user_input
    /\ produced' = Append(produced, user_input)
    /\ display' = Append(display, ENDL)
    /\ fully_validated' = (checks # <<>>)
    /\ idx' = 1
    /\ ran' = <<>>
    /\ pc' = IF checks # <<>> THEN "check" ELSE "done"
    /\ UNCHANGED << style, prompt_once, chain, icanon, echo, entry_icanon,
                    entry_echo, cin_fail, eof, user_input, character, err,
                    keys, echoed, reads, call >>

\* Faulty variant of ValidateCheck: a rejection is reported but the loop
\* neither breaks nor clears fully_validated.
ValidateCheckNoBreak ==
    /\ pc = "check"
    /\ ran' = Append(ran, idx)
    /\ LET r == Eval(checks[idx], candidate)
       IN  err' = IF r # Return THEN Append(err, r[1]) ELSE err
    /\ fully_validated' = fully_validated
    /\ idx' = idx + 1
    /\ pc' = IF idx = Len(checks) THEN "done" ELSE "check"
    /\ UNCHANGED << style, prompt_once, chain, icanon, echo, entry_icanon,
                    entry_echo, cin_fail, eof, user_input, character,
                    candidate, display, keys, produced, echoed, reads, call >>

\* Faulty variant of ValidateCheck: the handler writes the default prompt
\* instead of the exception's what().
ValidateCheckDefaultMessage ==
    /\ pc = "check"
    /\ ran' = Append(ran, idx)
    /\ LET r == Eval(checks[idx], candidate)
       IN  IF r # Return
           THEN /\ err' = Append(err, INVALID_INPUT_PROMPT)
                /\ fully_validated' = FALSE
                /\ pc' = "call"
                /\ idx' = idx
           ELSE /\ err' = err
                /\ fully_validated' = fully_validated
                /\ idx' = idx + 1
                /\ pc' = IF idx = Len(checks) THEN "done" ELSE "check"
    /\ UNCHANGED << style, prompt_once, chain, icanon, echo, entry_icanon,
                    entry_echo, cin_fail, eof, user_input, character,
                    candidate, display, keys, produced, echoed, reads, call >>

\* Faulty variant of ValidateCheck: the while loop does not see that every
\* check passed and calls the input function again.
ValidateCheckNeverDone ==
    /\ pc = "check"
    /\ ran' = Append(ran, idx)
    /\ LET r == Eval(checks[idx], candidate)
       IN  IF r # Return
           THEN /\ err' = Append(err, r[1])
                /\ fully_validated' = FALSE
                /\ pc' = "call"
                /\ idx' = idx
           ELSE /\ err' = err
                /\ fully_validated' = FALSE
                /\ idx' = idx + 1
                /\ pc' = IF idx = Len(checks) THEN "call" ELSE "check"
    /\ UNCHANGED << style, prompt_once, chain, icanon, echo, entry_icanon,
                    entry_echo, cin_fail, eof, user_input, character,
                    candidate, display, keys, produced, echoed, reads, call >>

\* Faulty variant of ValidateCheck: the handler does not catch the
\* exception, which leaves validate and ends the program.
ValidateCheckUncaught ==
    /\ pc = "check"
    /\ ran' = Append(ran, idx)
    /\ LET r == Eval(checks[idx], candidate)
       IN  IF r # Return
           THEN /\ err' = err
                /\ fully_validated' = fully_validated
                /\ pc' = "terminate"
                /\ idx' = idx
           ELSE /\ err' = err
                /\ fully_validated' = fully_validated
                /\ idx' = idx + 1
                /\ pc' = IF idx = Len(checks) THEN "done" ELSE "check"
    /\ UNCHANGED << style, prompt_once, chain, icanon, echo, entry_icanon,
                    entry_echo, cin_fail, eof, user_input, character,
                    candidate, display, keys, produced, echoed, reads, call >>

\* validate: one turn of the loop over { checks... }: call the check; on
\* InvalidInputException write what() to std::cerr and start over, else go
\* on to the next check, and return after the last.
ValidateCheck ==
    /\ pc = "check"
    /\ ran' = Append(ran, idx)
    /\ LET r == Eval(checks[idx], candidate)
       IN  IF r # Return
           THEN /\ err' = Append(err, r[1])
                /\ fully_validated' = FALSE
                /\ pc' = "call"
                /\ idx' = idx
           ELSE /\ err' = err
                /\ fully_validated' = fully_validated
                /\ idx' = idx + 1
                /\ pc' = IF idx = Len(checks) THEN "done" ELSE "check"
    /\ UNCHANGED << style, prompt_once, chain, icanon, echo, entry_icanon,
                    entry_echo, cin_fail, eof, user_input, character,
                    candidate, display, keys, produced, echoed, reads, call >>

Next ==
    \/ Input
    \/ InputFunction
    \/ GetchSetRaw
    \/ \E k \in Keys \cup {EOF} : GetchRead(k)
    \/ Interrupt
    \/ BasicInputKey
    \/ InstantInputKey
    \/ ValidateReceive
    \/ ValidateCheck

Spec == Init /\ [][Next]_vars

\* validate's own steps are sequential code that always runs on; a keystroke
\* comes when the console delivers one, which nothing guarantees.
FairSpec == Spec /\ WF_vars(ValidateReceive) /\ WF_vars(ValidateCheck)

(***************************************************************************)
(* Line mode on its own: in::input<Style::Basic or Masked>(message),       *)
(* without checks, at a console that delivers control characters too.      *)
(***************************************************************************)
\* The keys of Keys, and Ctrl-H: a control character that basic_input takes
\* for no command (its code is that of CURSOR_BACK).
LineKeys == Keys \cup {CURSOR_BACK}

LineInit ==
    /\ Init
    /\ style # "Instant"
    /\ checks = <<>>

LineNext ==
    \/ Input
    \/ InputFunction
    \/ GetchSetRaw
    \/ \E k \in LineKeys \cup {EOF} : GetchRead(k)
    \/ Interrupt
    \/ BasicInputKey
    \/ ValidateReceive

LineSpec == LineInit /\ [][LineNext]_vars

(***************************************************************************)
(* The checks called on their own: a check is built by its constructor     *)
(* and called once on a string.  call records what the constructor was     *)
(* given, the check, the string, what the call did, and for wrappers::any  *)
(* the wrapped checks it called.                                           *)
(***************************************************************************)
\* The strings over alphabet A of length at most n.
Strings(A, n) == UNION {[1..k -> A] : k \in 0..n}

\* 'a', 'A', '5' and '-'
WrapAlphabet == {97, 65, 53, MINUS}

\* Checks to pass to the wrappers: plain ones, ones with a message of their
\* own, and wrappers themselves.
Wrapped ==
    << length(1),
       is(FALSE, << <<65>> >>),
       numeric(KindInt),
       custom(length(2), NeedTwoChars),
       inverse(length(1)),
       any(<< is(TRUE, << <<97>> >>), length(2) >>),
       custom(range(KindInt, 5, 9), OutOfRange) >>

\* The program variables, which a check called on its own leaves alone.
program ==
    << style, prompt_once, chain, icanon, echo, entry_icanon, entry_echo,
       cin_fail, eof, pc, user_input, character, candidate, fully_validated,
       idx, display, err, keys, reads, produced, echoed, ran >>

\* check(user_input) for a check that was constructed.
Call(name, given, check, s, called) ==
    /\ call' = [op |-> name, given |-> given, check |-> check, input |-> s,
                constructed |-> TRUE, outcome |-> Eval(check, s),
                evaluated |-> called]
    /\ UNCHANGED program

\* inverse(c)(s) and inverse(inverse(c))(s)
CallInverse ==
    /\ call = NoCall
    /\ \E i \in 1..Len(Wrapped), twice \in BOOLEAN,
          s \in Strings(WrapAlphabet, MaxLen) :
           Call("inverse", <<Wrapped[i], twice>>,
                IF twice THEN inverse(inverse(Wrapped[i]))
                ELSE inverse(Wrapped[i]),
                s, <<>>)

\* any(c1, ..., cn)(s), n >= 1
CallAny ==
    /\ call = NoCall
    /\ \E n \in 1..MaxChecks :
          \E picked \in [1..n -> 1..Len(Wrapped)],
             s \in Strings(WrapAlphabet, MaxLen) :
              LET cs == [i \in 1..n |-> Wrapped[picked[i]]]
              IN  Call("any", cs, any(cs), s, AnyCalls(cs, 1, s))

\* 'a', 'z', '-', '^', ']' and '\'
SetAlphabet == {97, 122, MINUS, CARET, RBRACKET, BACKSLASH}

\* The characters of SetAlphabet, and 'm'
CandidateAlphabet == SetAlphabet \cup {109}

\* consists_of(string_of_char)(s): when the constructor throws there is no
\* check to call.
CallConsistsOf ==
    /\ call = NoCall
    /\ \E string_of_char \in Strings(SetAlphabet, MaxAllowed),
          s \in Strings(CandidateAlphabet, MaxCandidate) :
           LET c == consists_of(string_of_char)
           IN  IF c.op = "regex_error"
               THEN /\ call' = [op |-> "consists_of",
                                given |-> string_of_char, check |-> c,
                                input |-> s, constructed |-> FALSE,
                                outcome |-> <<>>, evaluated |-> <<>>]
                    /\ UNCHANGED program
               ELSE Call("consists_of", string_of_char, c, s, <<>>)

\* '-', '0', '1', '5', '9' and 'x'
NumAlphabet == {MINUS, 48, 49, 53, 57, 120}

\* The T, minimum and maximum range<T> is called with; the bounds default
\* to T's limits.
RangeCases ==
    << <<KindInt, 1, 10>>,
       <<KindInt, IntMin, IntMax>>,
       <<KindShort, 1, 10>>,
       <<KindShort, ShortMin, ShortMax>>,
       <<KindShort, 0 - 5, 15000>>,
       <<KindUShort, 0, UShortMax>>,
       <<KindChar, 1, 10>>,
       <<KindChar, SCharMin, SCharMax>> >>

\* range<T>(minimum, maximum)(s)
CallRange ==
    /\ call = NoCall
    /\ \E i \in 1..Len(RangeCases), s \in Strings(NumAlphabet, MaxDigits) :
           LET T == RangeCases[i][1]
               minimum == RangeCases[i][2]
               maximum == RangeCases[i][3]
           IN  Call("range", RangeCases[i], range(T, minimum, maximum),
                    s, <<>>)

\* '-', '.', '0', '5' and 'x'
LiteralAlphabet == {MINUS, DOT, 48, 53, 120}

\* An unsigned integral, a signed integral and a floating T.
NumericKinds == <<KindUShort, KindInt, KindDouble>>

\* numeric<T>()(s)
CallNumeric ==
    /\ call = NoCall
    /\ \E i \in 1..Len(NumericKinds),
          s \in Strings(LiteralAlphabet, MaxDigits) :
           Call("numeric", NumericKinds[i], numeric(NumericKinds[i]),
                s, <<>>)

\* 'a', '5', carriage return and line feed: keys getch can return, and
\* the input functions append (line feed in instant_input only).
LengthAlphabet == {97, 53, 13, NEWLINE}

\* length(n)(s)
CallLength ==
    /\ call = NoCall
    /\ \E n \in 0..MaxLen, s \in Strings(LengthAlphabet, MaxLen) :
           Call("length", n, length(n), s, <<>>)

\* 'A', 'B', 'a', 'b' and 'c'
IsAlphabet == {65, 66, 97, 98, 99}

\* The packs strings... is is called with: ("A", "b"), ("aB", "c"), ("").
IsStrings ==
    << << <<65>>, <<98>> >>,
       << <<97, 66>>, <<99>> >>,
       << <<>> >> >>

\* is<case_sensitive>(strings...)(s)
CallIs ==
    /\ call = NoCall
    /\ \E case_sensitive \in BOOLEAN, i \in 1..Len(IsStrings),
          s \in Strings(IsAlphabet, MaxLen) :
           Call("is", <<case_sensitive, IsStrings[i]>>,
                is(case_sensitive, IsStrings[i]), s, <<>>)

CheckInit ==
    /\ Init
    /\ style = "Basic"
    /\ prompt_once
    /\ chain = 1
    /\ icanon
    /\ echo
    /\ ~cin_fail

CheckNext ==
    \/ CallInverse
    \/ CallAny
    \/ CallConsistsOf
    \/ CallRange
    \/ CallNumeric
    \/ CallLength
    \/ CallIs

CheckSpec == CheckInit /\ [][CheckNext]_vars

(***************************************************************************)
(* Notions the properties are stated with.                                 *)
(***************************************************************************)
\* The positions of the checks of the chain that reject s.
Rejecting(s) == {i \in 1..Len(checks) : ~Accepts(checks[i], s)}

AllAccept(s) == Rejecting(s) = {}

\* The first check of the chain, in the order supplied, that rejects s.
FirstRejecting(s) ==
    CHOOSE i \in Rejecting(s) : \A j \in Rejecting(s) : i <= j

\* <<1, ..., n>>
UpTo(n) == [i \in 1..n |-> i]

\* How many of the attempts made so far have had all their checks run.
Settled == IF pc = "check" THEN Len(produced) - 1 ELSE Len(produced)

\* How often character c occurs in s.
RECURSIVE Count(_, _)
Count(c, s) ==
    IF s = <<>> THEN 0
    ELSE (IF Head(s) = c THEN 1 ELSE 0) + Count(c, Tail(s))

(***************************************************************************)
(* C1: with a non-empty chain of checks, the string validate returns was   *)
(* passed through every check of the chain, in the order supplied, and     *)
(* every one of them accepts it.                                           *)
(***************************************************************************)
C1_ReturnedPassedEveryCheck ==
    (pc = "done" /\ checks # <<>>) =>
        /\ candidate = produced[Len(produced)]
        /\ ran = UpTo(Len(checks))
        /\ \A i \in 1..Len(checks) : Accepts(checks[i], candidate)

\* validate returned on its second attempt, from a chain of two checks.
C1_Witness ==
    /\ pc = "done"
    /\ Len(checks) = 2
    /\ Len(produced) = 2
    /\ ~AllAccept(produced[1])

\* The parts of C2: what holds in every state, and of every step.
C2_State ==
    checks # <<>> =>
        /\ Len(err) = Cardinality({i \in 1..Settled : ~AllAccept(produced[i])})
        /\ \A i \in 1..Len(err) :
              /\ ~AllAccept(produced[i])
              /\ err[i] = Eval(checks[FirstRejecting(produced[i])],
                               produced[i])[1]
        /\ pc = "check" =>
              /\ ran = UpTo(idx - 1)
              /\ \A j \in 1..(idx - 1) : Accepts(checks[j], candidate)
        /\ (pc \in {"call", "getch", "getchar", "key", "killed"}
              /\ produced # <<>>) => ran = UpTo(FirstRejecting(candidate))
        /\ pc = "done" => Len(err) = Len(produced) - 1
        /\ (pc = "call" /\ Len(produced) < MaxAttempts) =>
              ENABLED InputFunction

C2_Step ==
    (checks # <<>> /\ err' # err) =>
        /\ pc = "check"
        /\ err' = Append(err, Eval(checks[FirstRejecting(candidate)],
                                   candidate)[1])
        /\ pc' = "call"

(***************************************************************************)
(* C2: with at least one check, the checks run left to right on the        *)
(* attempt's candidate and stop at the first that rejects; the line        *)
(* written to the error channel is that check's message and no other, one  *)
(* line per failed attempt and none for the accepted one; after the line   *)
(* validate is back at the call of the producer.                           *)
(***************************************************************************)
C2_FirstFailureReported == [](C2_State) /\ [][C2_Step]_vars

\* The second check of a chain rejected what the first had accepted, and its
\* message, not the first check's, was written.
C2_Witness ==
    /\ chain = 2
    /\ pc = "call"
    /\ ran = <<1, 2>>
    /\ err = <<INVALID_INPUT_PROMPT>>

\* The parts of C3: every state, every call of the input function, progress.
C3_State ==
    checks # <<>> =>
        /\ \A i \in 1..Settled :
              AllAccept(produced[i]) => (pc = "done" /\ i = Len(produced))
        /\ pc = "done" =>
              /\ candidate = produced[Len(produced)]
              /\ AllAccept(candidate)
              /\ \A i \in 1..(Len(produced) - 1) : ~AllAccept(produced[i])
              /\ Len(produced) = Len(err) + 1

C3_Step ==
    (checks # <<>> /\ pc' = "getch" /\ pc = "call") =>
        \A i \in 1..Len(produced) : ~AllAccept(produced[i])

C3_Returns ==
    (checks # <<>> /\ pc = "returned" /\ AllAccept(user_input))
        ~> (pc = "done" /\ candidate = produced[Len(produced)])

(***************************************************************************)
(* C3: with at least one check, validate returns the candidate of the      *)
(* first attempt that every check accepts; the producer is not called      *)
(* after such an attempt; once the producer has returned a candidate every *)
(* check accepts, validate returns; and on return the producer was called  *)
(* once more than attempts failed.                                         *)
(***************************************************************************)
C3_ReturnsFirstAccepted == [](C3_State) /\ [][C3_Step]_vars /\ C3_Returns

\* validate returned its second candidate after the first was rejected.
C3_Witness ==
    /\ pc = "done"
    /\ checks # <<>>
    /\ Len(produced) = 2
    /\ Len(err) = 1
    /\ produced[1] # produced[2]

(***************************************************************************)
(* C4: without checks validate calls the producer once and returns what it *)
(* produced, unchanged; the message is shown once and nothing is written   *)
(* to the error channel, whatever the checks would say of the result.      *)
(***************************************************************************)
C4_NoChecksOnce ==
    checks = <<>> =>
        /\ Len(produced) <= 1
        /\ err = <<>>
        /\ pc # "check"
        /\ Count(message[1], display) <= 1
        /\ pc = "done" =>
              /\ Len(produced) = 1
              /\ candidate = user_input
              /\ candidate = produced[1]
              /\ Count(message[1], display) = 1

\* validate returned, without checks, a string that a check of every other
\* chain rejects.
C4_Witness ==
    /\ checks = <<>>
    /\ pc = "done"
    /\ \A c \in 1..Len(Chains) :
          Chains[c] # <<>> =>
              \E i \in 1..Len(Chains[c]) : ~Accepts(Chains[c][i], candidate)

(***************************************************************************)
(* C5: whenever getch is not waiting in getchar(), the terminal's ICANON   *)
(* and ECHO bits are what they were when the getch call began: after a     *)
(* read that delivered a key, after a failed read, and after a signal      *)
(* ended the read.                                                         *)
(***************************************************************************)
C5_OriginalModeRestored ==
    pc # "getchar" => (icanon = entry_icanon /\ echo = entry_echo)

(***************************************************************************)
(* C6: in line mode a failed read ends the read cycle like a confirm: the  *)
(* end-of-input value is not appended to the accumulated string, and       *)
(* basic_input does not ask for another key after it.                      *)
(***************************************************************************)
C6_FailedReadConfirms ==
    style # "Instant" =>
        /\ \A i \in 1..Len(user_input) : user_input[i] # ToChar(EOF)
        /\ (pc \in {"getch", "getchar"} /\ keys # <<>>) =>
              keys[Len(keys)] # ToChar(EOF)

(***************************************************************************)
(* C7: in line mode the accumulated string is the result of applying the   *)
(* keys read so far in order, a delete removing the last character if      *)
(* there is one and every other key but confirm being appended; the        *)
(* string returned is that of the keys before the first confirm, and       *)
(* holds neither the confirm nor the delete key.                           *)
(***************************************************************************)
\* The string a sequence of keys (without confirm) edits to.
RECURSIVE Edited(_)
Edited(ks) ==
    IF ks = <<>> THEN <<>>
    ELSE LET before == Edited(SubSeq(ks, 1, Len(ks) - 1))
             k == ks[Len(ks)]
         IN  IF k = BACKSPACE
             THEN (IF before = <<>> THEN <<>>
                   ELSE SubSeq(before, 1, Len(before) - 1))
             ELSE Append(before, k)

C7_LineIsEditedKeys ==
    style # "Instant" =>
        /\ pc \in {"getch", "getchar"} =>
              /\ user_input = Edited(keys)
              /\ \A i \in 1..Len(keys) : keys[i] # NEWLINE
        /\ pc = "returned" =>
              /\ keys # <<>>
              /\ keys[Len(keys)] = NEWLINE
              /\ \A i \in 1..(Len(keys) - 1) : keys[i] # NEWLINE
              /\ user_input = Edited(SubSeq(keys, 1, Len(keys) - 1))
        /\ \A i \in 1..Len(user_input) :
              user_input[i] # NEWLINE /\ user_input[i] # BACKSPACE
        /\ (keys = <<BACKSPACE>> /\ pc # "key") => user_input = <<>>

\* Basic mode: a character, a delete, confirm; the empty string is returned.
C7_Witness ==
    /\ style = "Basic"
    /\ pc = "returned"
    /\ keys = <<97, BACKSPACE, NEWLINE>>
    /\ user_input = <<>>

(***************************************************************************)
(* C8, as stated: in Masked mode everything basic_input writes to the      *)
(* display is the mask glyph.                                              *)
(***************************************************************************)
C8_OnlyMaskWritten ==
    style = "Masked" => \A i \in 1..Len(echoed) : echoed[i] = INPUT_MASK

\* The parts of the amended C8: every state, and every step of basic_input.
C8_State ==
    style = "Masked" =>
        /\ \A i \in 1..Len(echoed) :
              echoed[i] \in {INPUT_MASK, CURSOR_BACK, SPACE}
        /\ pc # "key" =>
              /\ Count(INPUT_MASK, echoed) - Count(SPACE, echoed)
                    = Len(user_input)
              /\ Count(CURSOR_BACK, echoed) = 2 * Count(SPACE, echoed)
              /\ Count(INPUT_MASK, echoed)
                    = Cardinality({i \in 1..Len(keys) :
                                     keys[i] \notin {BACKSPACE, NEWLINE}})

C8_Step ==
    (style = "Masked" /\ pc = "key") =>
        /\ Len(user_input') = Len(user_input) + 1 =>
              echoed' = Append(echoed, INPUT_MASK)
        /\ Len(user_input') = Len(user_input) - 1 =>
              echoed' = echoed \o <<CURSOR_BACK, SPACE, CURSOR_BACK>>
        /\ user_input' = user_input => echoed' = echoed

(***************************************************************************)
(* C8, amended: in Masked mode basic_input writes the mask glyph for every *)
(* character it appends, never the character itself, and besides mask      *)
(* glyphs only the erase sequence (cursor back, space, cursor back), once  *)
(* for every delete that removed a character.                              *)
(***************************************************************************)
C8_MaskOrErase == [](C8_State) /\ [][C8_Step]_vars

\* Masked mode: a character, a delete, confirm; a mask and the erase sequence
\* were written.
C8_Witness ==
    /\ style = "Masked"
    /\ pc = "returned"
    /\ keys = <<97, BACKSPACE, NEWLINE>>
    /\ echoed = <<INPUT_MASK, CURSOR_BACK, SPACE, CURSOR_BACK>>

ControlPoints ==
    {"input", "call", "getch", "getchar", "key", "returned", "check",
     "done", "killed"}

C10_Step ==
    (pc = "check" /\ ~Accepts(checks[idx], candidate)) =>
        /\ Len(err') = Len(err) + 1
        /\ err'[Len(err')] = Eval(checks[idx], candidate)[1]
        /\ err'[Len(err')] # ""
        /\ pc' = "call"

(***************************************************************************)
(* C10: an InvalidInputException thrown by a check of the chain, nested    *)
(* wrappers included, does not leave validate: the program is never ended  *)
(* by it, and the step on which a check rejects writes one line, the       *)
(* exception's message, to the error channel and goes back to the call of  *)
(* the input function.                                                     *)
(***************************************************************************)
C10_RejectionCaughtAndReported ==
    [](pc \in ControlPoints) /\ [][C10_Step]_vars

\* A chain nesting inverse, any, custom and range: its second check, an any
\* of a custom range and a length, rejected the empty string.
C10_Witness ==
    /\ chain = 3
    /\ candidate = <<>>
    /\ ran = <<1, 2>>
    /\ pc = "call"
    /\ err = <<INVALID_INPUT_PROMPT>>

(***************************************************************************)
(* C11: inverse(c) accepts a string iff c rejects it, and rejects it with  *)
(* the default message "Invalid Input" iff c accepts it, whatever message  *)
(* c rejects with; inverse(inverse(c)) accepts exactly what c accepts.     *)
(***************************************************************************)
C11_InverseIsComplement ==
    call.op = "inverse" =>
        LET c == call.check.check
        IN  /\ call.outcome = Return <=> ~Accepts(c, call.input)
            /\ call.outcome = Throw(INVALID_INPUT_PROMPT)
                  <=> Accepts(c, call.input)
            /\ call.outcome \in {Return, Throw(INVALID_INPUT_PROMPT)}
            /\ c.op = "inverse" =>
                  (call.outcome = Return <=> Accepts(c.check, call.input))

\* inverse(inverse(c)) accepted a string c accepts, c being a check that
\* rejects with a message of its own.
C11_Witness ==
    /\ call.op = "inverse"
    /\ call.check.check.op = "inverse"
    /\ call.check.check.check.op = "custom"
    /\ call.outcome = Return
    /\ Accepts(call.check.check.check, call.input)
    /\ ~Accepts(call.check.check, call.input)

(***************************************************************************)
(* C12: any(c1, ..., cn), n >= 1, accepts a string iff some ci accepts it; *)
(* the ci are called in the order given, up to and including the first     *)
(* that accepts and none after it; when every ci rejects all were called   *)
(* and the rejection carries the default message, whatever the messages of *)
(* the ci.                                                                 *)
(***************************************************************************)
C12_AnyAcceptsIffSomeAccepts ==
    call.op = "any" =>
        LET cs == call.check.checks
            accepting == {i \in 1..Len(cs) : Accepts(cs[i], call.input)}
        IN  /\ cs # <<>>
            /\ call.outcome = Return <=> accepting # {}
            /\ accepting = {} =>
                  /\ call.outcome = Throw(INVALID_INPUT_PROMPT)
                  /\ call.evaluated = UpTo(Len(cs))
            /\ accepting # {} =>
                  \E first \in accepting :
                      /\ \A j \in accepting : first <= j
                      /\ call.evaluated = UpTo(first)

\* any of two checks, the first with a message of its own: both rejected,
\* both were called, the message is the default one.
C12_Witness ==
    /\ call.op = "any"
    /\ Len(call.check.checks) = 2
    /\ call.check.checks[1].op = "custom"
    /\ Eval(call.check.checks[1], call.input) = Throw(NeedTwoChars)
    /\ call.evaluated = <<1, 2>>
    /\ call.outcome = Throw(INVALID_INPUT_PROMPT)

\* The parts of C13: the custom checks of the chains on every candidate
\* produced, and the step of validate that calls a custom check.
C13_State ==
    \A ch \in 1..Len(Chains) : \A i \in 1..Len(Chains[ch]) :
        LET c == Chains[ch][i]
        IN  c.op = "custom" =>
                \A a \in 1..Len(produced) :
                    /\ Accepts(c, produced[a]) <=> Accepts(c.check, produced[a])
                    /\ ~Accepts(c.check, produced[a]) =>
                          Eval(c, produced[a]) = Throw(c.error_message)

C13_Step ==
    (pc = "check" /\ checks[idx].op = "custom") =>
        LET c == checks[idx]
            inner == Eval(c.check, candidate)
        IN  /\ inner = Return => (err' = err /\ pc' # "call")
            /\ inner # Return =>
                  /\ err' = Append(err, c.error_message)
                  /\ err'[Len(err')] # inner[1]
                  /\ err'[Len(err')] # INVALID_INPUT_PROMPT
                  /\ pc' = "call"

(***************************************************************************)
(* C13: custom(c, msg) accepts a string iff c accepts it, and when c       *)
(* rejects it the exception carries msg, not c's message; when the custom  *)
(* check is the first check of a validate chain to reject the candidate,   *)
(* the line written to the error channel is msg.                           *)
(***************************************************************************)
C13_CustomMessageSurfaces == [](C13_State) /\ [][C13_Step]_vars

\* custom(length(2), "need two chars") rejected "a": the line written is
\* "need two chars".
C13_Witness ==
    /\ chain = 2
    /\ produced = << <<97>> >>
    /\ pc = "call"
    /\ ran = <<1>>
    /\ err = <<NeedTwoChars>>

(***************************************************************************)
(* C14: for every string_of_char, consists_of(string_of_char) gives a      *)
(* check, and the check accepts a string iff the string has one or more    *)
(* characters and each of them occurs in string_of_char; - ^ ] and \ in    *)
(* string_of_char stand for themselves.                                    *)
(***************************************************************************)
C14_AcceptsStringsOverAllowed ==
    call.op = "consists_of" =>
        /\ call.constructed
        /\ call.outcome = Return <=>
              /\ call.input # <<>>
              /\ \A i \in 1..Len(call.input) :
                    \E j \in 1..Len(call.given) :
                        call.input[i] = call.given[j]

\* s is a literal of an integral kind: digits, after a minus if signed.
IntegralLiteral(signed, s) ==
    LET digits == IF signed /\ s # <<>> /\ s[1] = MINUS THEN Tail(s) ELSE s
    IN  /\ digits # <<>>
        /\ \A i \in 1..Len(digits) : digits[i] \in Digits

\* The number an integral literal denotes.
LiteralValue(s) ==
    IF s[1] = MINUS THEN 0 - DigitsValue(Tail(s)) ELSE DigitsValue(s)

(***************************************************************************)
(* C15: for an integral T of bounded width, range<T>(min, max) accepts a   *)
(* string iff it is a literal of T's kind and the number it denotes is at  *)
(* least min and at most max; so a literal denoting a number that does not *)
(* fit in T is rejected; every rejection is an InvalidInputException with  *)
(* the default message.                                                    *)
(***************************************************************************)
C15_RangeAcceptsValuesWithin ==
    call.op = "range" =>
        LET T == call.given[1]
            minimum == call.given[2]
            maximum == call.given[3]
            s == call.input
        IN  /\ call.outcome = Return <=>
                  /\ IntegralLiteral(T.signed, s)
                  /\ LiteralValue(s) >= minimum
                  /\ LiteralValue(s) <= maximum
            /\ call.outcome \in {Return, Throw(INVALID_INPUT_PROMPT)}

\* s is one or more digits.
AllDigits(s) == s # <<>> /\ \A i \in 1..Len(s) : s[i] \in Digits

\* s without its leading minus, if it has one.
Unsigned(s) == IF s # <<>> /\ s[1] = MINUS THEN Tail(s) ELSE s

\* s is digits, a dot, digits.
Decimal(s) ==
    \E d \in 1..Len(s) :
        /\ s[d] = DOT
        /\ AllDigits(SubSeq(s, 1, d - 1))
        /\ AllDigits(SubSeq(s, d + 1, Len(s)))

(***************************************************************************)
(* C16: numeric<T>() accepts a string iff the whole of it is a literal of  *)
(* T's kind: one or more digits for an unsigned integral T; the same after *)
(* an optional minus for a signed integral T; an optional minus, digits, a *)
(* dot and digits for a floating T.  The empty string is rejected for      *)
(* every kind, a string of digits without a dot for a floating T; every    *)
(* rejection carries the default message.                                  *)
(***************************************************************************)
C16_NumericAcceptsLiterals ==
    call.op = "numeric" =>
        LET T == call.given
            s == call.input
        IN  /\ call.outcome = Return <=>
                  IF T.floating THEN Decimal(Unsigned(s))
                  ELSE IF T.signed THEN AllDigits(Unsigned(s))
                  ELSE AllDigits(s)
            /\ s = <<>> => call.outcome # Return
            /\ (T.floating /\ AllDigits(s)) => call.outcome # Return
            /\ call.outcome \in {Return, Throw(INVALID_INPUT_PROMPT)}

\* numeric<double>() accepted "-0.5".
C16_Witness ==
    /\ call.op = "numeric"
    /\ call.given.floating
    /\ call.input = <<MINUS, 48, DOT, 53>>
    /\ call.outcome = Return

(***************************************************************************)
(* C17: length(n) accepts a string iff its length is exactly n, whatever   *)
(* its characters are, control characters such as carriage return          *)
(* included.                                                               *)
(***************************************************************************)
C17_LengthAcceptsExactlyN ==
    call.op = "length" =>
        (call.outcome = Return <=> Len(call.input) = call.given)

\* Characters a and b are the same letter in either case, or the same
\* character.
SameLetter(a, b) ==
    \/ a = b
    \/ a \in 65..90 /\ b = a + 32
    \/ b \in 65..90 /\ a = b + 32

\* Strings s and r are equal but for the case of their letters.
EqualButCase(s, r) ==
    Len(s) = Len(r) /\ \A i \in 1..Len(s) : SameLetter(s[i], r[i])

(***************************************************************************)
(* C18: is<case_sensitive>(strings...) accepts a string iff it equals one  *)
(* of the strings given, exactly when case_sensitive is true and but for   *)
(* the case of letters when it is false; otherwise it rejects with the     *)
(* default message.  With ("A", "b") the case-insensitive check accepts    *)
(* "a", "B", "A", "b" and rejects "c"; the case-sensitive check accepts    *)
(* "A", "b" and rejects "a", "B".                                          *)
(***************************************************************************)
C18_IsAcceptsGivenStrings ==
    call.op = "is" =>
        LET case_sensitive == call.given[1]
            strings == call.given[2]
            s == call.input
            accepted == call.outcome = Return
        IN  /\ accepted <=>
                  \E i \in 1..Len(strings) :
                      IF case_sensitive THEN s = strings[i]
                      ELSE EqualButCase(s, strings[i])
            /\ ~accepted => call.outcome = Throw(INVALID_INPUT_PROMPT)
            /\ (strings = << <<65>>, <<98>> >> /\ ~case_sensitive) =>
                  /\ s \in {<<97>>, <<66>>, <<65>>, <<98>>} => accepted
                  /\ s = <<99>> => ~accepted
            /\ (strings = << <<65>>, <<98>> >> /\ case_sensitive) =>
                  /\ s \in {<<65>>, <<98>>} => accepted
                  /\ s \in {<<97>>, <<66>>} => ~accepted

\* The case-insensitive is("A", "b") accepted "B".
C18_Witness ==
    /\ call.op = "is"
    /\ call.given = <<FALSE, << <<65>>, <<98>> >> >>
    /\ call.input = <<66>>
    /\ call.outcome = Return

\* How often the input function has been called.
Invocations ==
    Len(produced)
    + (IF pc \in {"getch", "getchar", "key", "returned", "killed"}
       THEN 1 ELSE 0)

\* The parts of C19: how often the message is on the display, and the steps
\* that write it.
C19_State ==
    Count(message[1], display) =
        IF prompt_once THEN (IF pc = "input" THEN 0 ELSE 1) ELSE Invocations

C19_Step ==
    /\ (pc = "input" /\ pc' = "call") =>
          display' = (IF prompt_once THEN message ELSE <<>>)
    /\ (pc = "call" /\ pc' = "getch") =>
          display' = (IF prompt_once THEN display ELSE display \o message)

(***************************************************************************)
(* C19: with prompt_once the message is written once, before validate is   *)
(* called, and never again however many attempts fail; without prompt_once *)
(* it is written at the beginning of every call of the input function and  *)
(* nowhere else, so that it is on the display as often as the input        *)
(* function has been called.                                               *)
(***************************************************************************)
C19_PromptPolicy == [](C19_State) /\ [][C19_Step]_vars

\* Without prompt_once: a second attempt is under way after the first was
\* rejected, and the message has been written twice.
C19_Witness ==
    /\ ~prompt_once
    /\ Len(produced) = 1
    /\ Len(err) = 1
    /\ pc = "getchar"
    /\ Count(message[1], display) = 2

\* No call of getch is under way: getch has not yet changed the terminal's
\* mode, or has returned.  A process that a signal ended inside getchar()
\* never left its call of getch.
NoReadInFlight == pc \notin {"getchar", "killed"}

(***************************************************************************)
(* C20: the terminal's mode is set back by every single call of getch, not *)
(* at the end of the input loop: whenever no call of getch is under way    *)
(* (between two keys of basic_input, while validate runs the checks or     *)
(* writes, after it returned), ICANON and ECHO are not off because of the  *)
(* library: before the first read they are as the program found them, and  *)
(* after any read they are on.                                             *)
(***************************************************************************)
C20_NotRawBetweenReads ==
    NoReadInFlight =>
        IF reads = 0
        THEN icanon = entry_icanon /\ echo = entry_echo
        ELSE icanon /\ echo

\* basic_input between two keys: 'a' was read, the next getch has not
\* begun, and ICANON and ECHO are on.
C20_Witness ==
    /\ style = "Basic"
    /\ pc = "getch"
    /\ keys = <<97>>
    /\ user_input = <<97>>
    /\ icanon
    /\ echo

\* What is written to std::cout on the line the cursor is on.
RECURSIVE CurrentLine(_)
CurrentLine(s) ==
    IF s = <<>> \/ s[Len(s)] = ENDL THEN <<>>
    ELSE Append(CurrentLine(SubSeq(s, 1, Len(s) - 1)), s[Len(s)])

\* The terminal's line after s was written from its left margin: the cells
\* of the line and the column of the cursor.  CURSOR_BACK moves the cursor
\* one cell to the left; any other character is put in the cell under the
\* cursor, which moves one cell to the right.
RECURSIVE Render(_)
Render(s) ==
    IF s = <<>> THEN [cells |-> <<>>, cursor |-> 0]
    ELSE LET r == Render(SubSeq(s, 1, Len(s) - 1))
             c == s[Len(s)]
         IN  IF c = CURSOR_BACK
             THEN [r EXCEPT !.cursor = IF @ > 0 THEN @ - 1 ELSE 0]
             ELSE [cells |-> IF r.cursor < Len(r.cells)
                             THEN [r.cells EXCEPT ![r.cursor + 1] = c]
                             ELSE Append(r.cells, c),
                   cursor |-> r.cursor + 1]

(***************************************************************************)
(* C21: in line mode, after every key of any sequence of keys, the glyphs  *)
(* on the current line after the prompt are as many as the accumulated     *)
(* string has characters, the cursor stands after the last of them and the *)
(* cells from the cursor on are blank; in Basic mode the glyphs are the    *)
(* characters of the accumulated string in order, in Masked mode mask      *)
(* glyphs.                                                                 *)
(***************************************************************************)
C21_DisplayInStep ==
    (style # "Instant" /\ pc \in {"getch", "getchar", "returned"}) =>
        LET line == CurrentLine(display)
            prompt == Len(line) - Len(echoed)
            r == Render(line)
            glyphs == SubSeq(r.cells, prompt + 1, r.cursor)
        IN  /\ r.cursor - prompt = Len(user_input)
            /\ Len(glyphs) = Len(user_input)
            /\ \A i \in (r.cursor + 1)..Len(r.cells) : r.cells[i] = SPACE
            /\ style = "Basic" => glyphs = user_input
            /\ style = "Masked" =>
                  \A i \in 1..Len(glyphs) : glyphs[i] = INPUT_MASK

=============================================================================
